---- MODULE Spec2Model ----
(***************************************************************************)
(* Model of src/main.py: a FastAPI service that classifies reviews by      *)
(* keyword matching (analyze_sentiment), stores them in the SQLite file    *)
(* reviews.db (init_db, create_review) and lists them (get_reviews).       *)
(*                                                                         *)
(* Texts are sequences of Unicode code points.  The SQLite file is the     *)
(* committed table contents (rows), the AUTOINCREMENT counter (seq) and    *)
(* the holder of the write transaction (writer).  Every request opens its  *)
(* own connection; POST requests are modelled step by step (connect,       *)
(* INSERT, commit) so that requests served by different workers can        *)
(* interleave; a GET performs a single SELECT and is one step.  resp is    *)
(* the response the service sent last, with the request it answers and the *)
(* storage error raised while handling it.                                 *)
(***************************************************************************)
EXTENDS Integers, Sequences, FiniteSets, TLC

VARIABLES boot, log, tableExists, rows, seq, writer, clock,
          pc, text, sentiment, created_at, pending, resp, posted,
          ctext, clabel, cn

svars == <<boot, log, tableExists, rows, seq, writer, clock,
           pc, text, sentiment, created_at, pending, resp, posted>>
cvars == <<ctext, clabel, cn>>
vars == <<svars, cvars>>

(***************************************************************************)
(* Bounds of the model.                                                    *)
(***************************************************************************)
MaxRows == 2
MaxClock == 1
MaxChunks == 2

Workers == {"w1", "w2"}
NoWriter == "none"

Range(s) == {s[i] : i \in 1..Len(s)}

(***************************************************************************)
(* Keyword stems of analyze_sentiment, as code points.                     *)
(***************************************************************************)
positive_words ==
  << <<1093, 1086, 1088, 1086, 1096>>,
     <<1086, 1090, 1083, 1080, 1095, 1085>>,
     <<1087, 1088, 1077, 1082, 1088, 1072, 1089, 1085>>,
     <<1083, 1102, 1073, 1083, 1102>>,
     <<1085, 1088, 1072, 1074, 1080, 1090, 1089, 1103>>,
     <<1089, 1091, 1087, 1077, 1088>>,
     <<1082, 1083, 1072, 1089, 1089>> >>

negative_words ==
  << <<1087, 1083, 1086, 1093>>,
     <<1091, 1078, 1072, 1089, 1085>>,
     <<1085, 1077, 1085, 1072, 1074, 1080, 1078>>,
     <<1086, 1090, 1074, 1088, 1072, 1090, 1080, 1090, 1077, 1083, 1100, 1085>>,
     <<1082, 1086, 1096, 1084, 1072, 1088>>,
     <<1088, 1072, 1079, 1086, 1095, 1072, 1088, 1086, 1074, 1072, 1085>> >>

Labels == {"positive", "negative", "neutral"}

(***************************************************************************)
(* str.lower() on the alphabet of the model: Latin A-Z, Cyrillic           *)
(* U+0410..U+042F and U+0401 have a lower-case form, every other code      *)
(* point of the alphabet maps to itself.                                   *)
(***************************************************************************)
LowerChar(c) ==
  IF c \in 65..90 THEN c + 32
  ELSE IF c \in 1040..1071 THEN c + 32
  ELSE IF c = 1025 THEN 1105
  ELSE c

lower(t) == [i \in 1..Len(t) |-> LowerChar(t[i])]

UpperChar(c) ==
  IF c \in 97..122 THEN c - 32
  ELSE IF c \in 1072..1103 THEN c - 32
  ELSE IF c = 1105 THEN 1025
  ELSE c

upper(t) == [i \in 1..Len(t) |-> UpperChar(t[i])]

(***************************************************************************)
(* "word in text": left-to-right scan for the first occurrence.            *)
(***************************************************************************)
MatchAt(word, t, i) == \A j \in 1..Len(word) : t[i + j - 1] = word[j]

RECURSIVE FindFrom(_, _, _)
FindFrom(word, t, i) ==
  IF i + Len(word) - 1 > Len(t) THEN FALSE
  ELSE IF MatchAt(word, t, i) THEN TRUE
  ELSE FindFrom(word, t, i + 1)

In(word, t) == FindFrom(word, t, 1)

any_in(words, t) == \E k \in 1..Len(words) : In(words[k], t)

analyze_sentiment_negfirst(t) ==
  LET low == lower(t)
  IN  IF any_in(negative_words, low) THEN "negative"
      ELSE IF any_in(positive_words, low) THEN "positive"
      ELSE "neutral"

analyze_sentiment(t) ==
  LET low == lower(t)
  IN  IF any_in(positive_words, low) THEN "positive"
      ELSE IF any_in(negative_words, low) THEN "negative"
      ELSE "neutral"

(***************************************************************************)
(* Requests.  A POST body either lacks the field text or carries a string; *)
(* a GET either lacks the query parameter sentiment (None) or carries a    *)
(* string, possibly empty.                                                 *)
(***************************************************************************)
EmptyText == <<>>
TextGood == <<1061, 1086, 1088, 1086, 1096>>
TextBad == <<1087, 1083, 1086, 1093>>
ServiceTexts == {EmptyText, TextGood, TextBad}

Bodies ==
  {[hasText |-> FALSE, text |-> EmptyText]} \cup
  {[hasText |-> TRUE, text |-> t] : t \in ServiceTexts}

None == [present |-> FALSE, value |-> ""]
Queries ==
  {None} \cup
  {[present |-> TRUE, value |-> v] :
     v \in {"", "positive", "negative", "neutral", "happy"}}

\* ReviewRequest: text is a required str; pydantic puts no bound on its length.
ReviewRequest_valid(body) == body.hasText

\* Python truth value of an Optional[str]: None and "" are false.
Truthy_presentOnly(q) == q.present

Truthy(q) == q.present /\ q.value # ""

AllowedSentiments == <<"positive", "negative", "neutral">>

(***************************************************************************)
(* Error texts and responses.                                              *)
(***************************************************************************)
OpenError == "unable to open database file"
DdlError == "unrecognized token: #"
NoTableError == "no such table: reviews"
LockedError == "database is locked"
IoError == "disk I/O error"
BadFilterDetail == "400: invalid sentiment; allowed: positive, negative, neutral"
SaveMsg == "error saving review: "
ListMsg == "error listing reviews: "
ServerErrorText == "Internal Server Error"

NoTime == [utc |-> -1]
\* datetime.utcnow().isoformat(): the text form of the clock reading.
isoformat(t) == [utc |-> t]

NoRow == [id |-> 0, text |-> EmptyText, sentiment |-> "", created_at |-> NoTime]

\* A response: req and query name the request it answers, raised is the text
\* of the storage exception raised while handling it ("" when none was).
Response(req, q, code, msg, cause, raised, records) ==
  [req |-> req, query |-> q, status |-> code, msg |-> msg, cause |-> cause,
   raised |-> raised, body |-> records]

NoResp == Response("none", None, 0, "", "", "", <<>>)

\* raise HTTPException(status_code=500, detail=msg + str(e)) in an except clause
HTTPException500(req, q, msg, cause, raised) ==
  Response(req, q, 500, msg, cause, raised, <<>>)

\* An exception that is not an HTTPException leaves the handler: the server
\* answers with its generic status-500 page.
Unhandled(req, q, raised) ==
  Response(req, q, 500, ServerErrorText, "", raised, <<>>)

\* Schema validation failure of the request body.
ValidationError == Response("POST", None, 422, "field required", "", "", <<>>)

Ok(req, q, records) == Response(req, q, 200, "", "", "", records)

(***************************************************************************)
(* Storage.                                                                *)
(***************************************************************************)
MaxId(rs) == IF rs = <<>> THEN 0 ELSE CHOOSE m \in {rs[i].id : i \in 1..Len(rs)} :
                                        \A i \in 1..Len(rs) : rs[i].id <= m

\* INTEGER PRIMARY KEY AUTOINCREMENT: one more than the largest id ever used.
NextRowid == (IF seq > MaxId(rows) THEN seq ELSE MaxId(rows)) + 1

\* A connection may start writing only while no other connection holds the
\* write transaction of the file.
CanWrite_unlocked(p) == TRUE

CanWrite(p) == writer = NoWriter

\* INSERT INTO reviews (text, sentiment, created_at) VALUES (?, ?, ?)
InsertRow_wrongColumn(id, t, s, c) ==
  [id |-> id, text |-> t, sentiment |-> "neutral", created_at |-> c]

InsertRow(id, t, s, c) ==
  [id |-> id, text |-> t, sentiment |-> s, created_at |-> c]

\* conn.commit(): the pending row becomes part of the table.
Commit_lost(rs, r) == rs

Commit(rs, r) == Append(rs, r)

RECURSIVE SelectSeq2(_, _)
\* rows of rs with sentiment s, in table order.
SelectSeq2(rs, s) ==
  IF rs = <<>> THEN <<>>
  ELSE IF Head(rs).sentiment = s THEN <<Head(rs)>> \o SelectSeq2(Tail(rs), s)
  ELSE SelectSeq2(Tail(rs), s)

\* SELECT id, text, sentiment, created_at FROM reviews WHERE sentiment = ?
SelectWhere_all(rs, s) == rs

SelectWhere(rs, s) == SelectSeq2(rs, s)

\* SELECT id, text, sentiment, created_at FROM reviews
SelectAll(rs) == rs

InFlight == Cardinality({p \in Workers : pc[p] # "idle"})

(***************************************************************************)
(* Initial state: the module is about to be imported.  reviews.db may      *)
(* already hold the table reviews (tableExists) or not.                    *)
(***************************************************************************)
InitService ==
  /\ boot = "import"
  /\ log = <<>>
  /\ tableExists \in BOOLEAN
  /\ rows = <<>>
  /\ seq = 0
  /\ writer = NoWriter
  /\ clock = 0
  /\ pc = [p \in Workers |-> "idle"]
  /\ text = [p \in Workers |-> EmptyText]
  /\ sentiment = [p \in Workers |-> ""]
  /\ created_at = [p \in Workers |-> NoTime]
  /\ pending = [p \in Workers |-> NoRow]
  /\ resp = NoResp
  /\ posted = {}

Init == InitService /\ ctext = <<>> /\ clabel = "" /\ cn = 0

(***************************************************************************)
(* init_db(), called while the module is imported.  If connect raises, the *)
(* handler prints the error and the finally block then reads the unbound   *)
(* local conn: UnboundLocalError leaves init_db and the import fails.  If  *)
(* connect succeeds, SQLite rejects the CREATE TABLE text (it contains     *)
(* '#', which is not an SQL token), the error is printed, the connection   *)
(* is closed and init_db returns; the file is left as it was.              *)
(***************************************************************************)
init_db ==
  /\ boot = "import"
  /\ \E opened \in BOOLEAN :
       IF opened
       THEN /\ log' = Append(log, DdlError)
            /\ boot' = "serving"
       ELSE /\ log' = Append(log, OpenError)
            /\ boot' = "crashed"
  /\ UNCHANGED <<tableExists, rows, seq, writer, clock, pc, text, sentiment,
                 created_at, pending, resp, posted, cvars>>

\* The wall clock advances.
Tick ==
  /\ boot = "serving"
  /\ clock < MaxClock
  /\ clock' = clock + 1
  /\ UNCHANGED <<boot, log, tableExists, rows, seq, writer, pc, text, sentiment,
                 created_at, pending, resp, posted, cvars>>

(***************************************************************************)
(* POST /reviews                                                           *)
(***************************************************************************)
\* The body fails schema validation: create_review is not called.
create_review_rejected(p, body) ==
  /\ boot = "serving"
  /\ pc[p] = "idle"
  /\ ~ReviewRequest_valid(body)
  /\ resp' = ValidationError
  /\ UNCHANGED <<boot, log, tableExists, rows, seq, writer, clock, pc, text,
                 sentiment, created_at, pending, posted, cvars>>

\* Lines 112-120: classify, take the timestamp, open the connection.
create_review_begin(p, body) ==
  /\ boot = "serving"
  /\ pc[p] = "idle"
  /\ ReviewRequest_valid(body)
  /\ Len(rows) + InFlight < MaxRows
  /\ \E opened \in BOOLEAN :
       IF opened
       THEN /\ pc' = [pc EXCEPT ![p] = "execute"]
            /\ text' = [text EXCEPT ![p] = body.text]
            /\ sentiment' = [sentiment EXCEPT ![p] = analyze_sentiment(body.text)]
            /\ created_at' = [created_at EXCEPT ![p] = isoformat(clock)]
            /\ UNCHANGED resp
       ELSE \* line 144 raises the 500, then line 149 reads the unbound conn
            /\ resp' = Unhandled("POST", None, OpenError)
            /\ UNCHANGED <<pc, text, sentiment, created_at>>
  /\ UNCHANGED <<boot, log, tableExists, rows, seq, writer, clock, pending,
                 posted, cvars>>

\* The request of worker p ends in the except clause with storage error err;
\* its connection is closed.
FailRequest(p, err) ==
  /\ resp' = HTTPException500("POST", None, SaveMsg, err, err)
  /\ pc' = [pc EXCEPT ![p] = "idle"]
  /\ text' = [text EXCEPT ![p] = EmptyText]
  /\ sentiment' = [sentiment EXCEPT ![p] = ""]
  /\ created_at' = [created_at EXCEPT ![p] = NoTime]
  /\ pending' = [pending EXCEPT ![p] = NoRow]

\* Lines 123-129: the INSERT and lastrowid.
create_review_execute(p) ==
  /\ pc[p] = "execute"
  /\ \/ /\ tableExists
        /\ CanWrite(p)
        /\ pending' = [pending EXCEPT ![p] =
                         InsertRow(NextRowid, text[p], sentiment[p], created_at[p])]
        /\ writer' = p
        /\ pc' = [pc EXCEPT ![p] = "commit"]
        /\ UNCHANGED <<text, sentiment, created_at, resp>>
     \/ /\ \E err \in {NoTableError, LockedError, IoError} :
             /\ err = NoTableError => ~tableExists
             /\ err = LockedError => tableExists /\ writer # NoWriter
             /\ err = IoError => tableExists
             /\ FailRequest(p, err)
        /\ UNCHANGED writer
  /\ UNCHANGED <<boot, log, tableExists, rows, seq, clock, posted, cvars>>

\* Lines 132-150: commit, build the response, close the connection.
create_review_commit(p) ==
  /\ pc[p] = "commit"
  /\ \/ /\ rows' = Commit(rows, pending[p])
        /\ seq' = pending[p].id
        /\ LET review == [id |-> pending[p].id, text |-> text[p],
                          sentiment |-> sentiment[p], created_at |-> created_at[p]]
           IN  /\ resp' = Ok("POST", None, <<review>>)
               /\ posted' = posted \cup {review}
        /\ pc' = [pc EXCEPT ![p] = "idle"]
        /\ text' = [text EXCEPT ![p] = EmptyText]
        /\ sentiment' = [sentiment EXCEPT ![p] = ""]
        /\ created_at' = [created_at EXCEPT ![p] = NoTime]
        /\ pending' = [pending EXCEPT ![p] = NoRow]
     \/ \* commit raises; close() rolls the transaction back
        /\ FailRequest(p, IoError)
        /\ UNCHANGED <<rows, seq, posted>>
  /\ writer' = NoWriter
  /\ UNCHANGED <<boot, log, tableExists, clock, cvars>>

(***************************************************************************)
(* GET /reviews.  The connection is opened first (line 165); the filter is *)
(* examined inside the try block, so the HTTPException(400) of line 172 is *)
(* itself caught by "except Exception" (line 198) and replaced by the      *)
(* status-500 exception of line 199, whose detail embeds its text.         *)
(***************************************************************************)
get_reviews(q) ==
  /\ boot = "serving"
  /\ \E opened \in BOOLEAN, ioerr \in BOOLEAN :
       resp' =
         IF ~opened
         THEN Unhandled("GET", q, OpenError)
         ELSE IF Truthy(q) /\ q.value \notin Range(AllowedSentiments)
         THEN HTTPException500("GET", q, ListMsg, BadFilterDetail, "")
         ELSE IF ~tableExists
         THEN HTTPException500("GET", q, ListMsg, NoTableError, NoTableError)
         ELSE IF ioerr
         THEN HTTPException500("GET", q, ListMsg, IoError, IoError)
         ELSE IF Truthy(q)
         THEN Ok("GET", q, SelectWhere(rows, q.value))
         ELSE Ok("GET", q, SelectAll(rows))
  /\ UNCHANGED <<boot, log, tableExists, rows, seq, writer, clock, pc, text,
                 sentiment, created_at, pending, posted, cvars>>

Next ==
  \/ init_db
  \/ Tick
  \/ \E p \in Workers, body \in Bodies : create_review_rejected(p, body)
  \/ \E p \in Workers, body \in Bodies : create_review_begin(p, body)
  \/ \E p \in Workers : create_review_execute(p)
  \/ \E p \in Workers : create_review_commit(p)
  \/ \E q \in Queries : get_reviews(q)

Spec == Init /\ [][Next]_vars

(***************************************************************************)
(* The classifier on its own: it is called on texts that grow by one chunk  *)
(* per call, up to MaxChunks chunks (stems in lower, upper and mixed case,  *)
(* pieces of stems, filler).                                               *)
(***************************************************************************)
Chunks ==
  { positive_words[k] : k \in 1..Len(positive_words) } \cup
  { negative_words[k] : k \in 1..Len(negative_words) } \cup
  { upper(positive_words[1]), upper(negative_words[1]),
    TextGood, <<1055, 1083, 1086, 1093>>,
    <<1093, 1086, 1088>>, <<1086, 1096>>, <<1087, 1083>>, <<1086, 1093>>,
    <<32>>, <<1089, 1077, 1088, 1074, 1080, 1089>>, <<103, 111, 111, 100>> }

\* One call of analyze_sentiment, on the previous text extended by a chunk.
Classify(c) ==
  /\ cn < MaxChunks
  /\ cn' = cn + 1
  /\ ctext' = ctext \o c
  /\ clabel' = analyze_sentiment(ctext')
  /\ UNCHANGED svars

InitClassifier ==
  /\ InitService
  /\ cn = 0
  /\ ctext = <<>>
  /\ clabel = analyze_sentiment(ctext)

NextClassifier == \E c \in Chunks : Classify(c)

SpecClassifier == InitClassifier /\ [][NextClassifier]_vars

(***************************************************************************)
(* Properties.                                                             *)
(***************************************************************************)
EmptyQuery == [present |-> TRUE, value |-> ""]
LabelQueries == {[present |-> TRUE, value |-> l] : l \in Labels}
StorageErrors == {OpenError, NoTableError, LockedError, IoError}

\* w occurs in t as a contiguous block.
Occurs(w, t) ==
  \E i \in 1..Len(t) : i + Len(w) - 1 <= Len(t) /\ SubSeq(t, i, i + Len(w) - 1) = w

HasStem(words, t) == \E k \in 1..Len(words) : Occurs(words[k], lower(t))

NoDuplicates(s) == \A i, j \in 1..Len(s) : s[i] = s[j] => i = j

\* C1: a GET whose sentiment value is non-empty and is not one of positive,
\* negative, neutral is answered with status 400 and carries no records.
C1_InvalidFilterIs400 ==
  (resp.req = "GET" /\ resp.query.present
     /\ resp.query.value \notin (Labels \cup {""}))
    => (resp.status = 400 /\ resp.body = <<>>)

\* C2: a POST whose text is the empty string (or is missing) is rejected
\* before the handler body runs, and nothing is stored for it: no handler is
\* ever running on an empty text and no stored review has an empty text.
C2_EmptyTextRejected ==
  /\ \A p \in Workers : pc[p] # "idle" => text[p] # EmptyText
  /\ \A i \in 1..Len(rows) : rows[i].text # EmptyText

\* C3: a POST during which a storage step fails (connect, INSERT or commit)
\* is answered with status 500 and a message that embeds the text of the
\* storage error, and no review stored for it exists (the table holds what
\* successful requests were answered with, nothing else).
C3_StorageFailureReported ==
  /\ (resp.req = "POST" /\ resp.raised # "") =>
        /\ resp.status = 500
        /\ resp.msg = SaveMsg
        /\ resp.cause = resp.raised
  /\ Range(rows) = posted

\* C4: whichever way init_db fails (connect or CREATE TABLE), the failure is
\* logged, init_db returns and the service gets to serve requests; the
\* failure shows only as status 500 on requests that touch the missing table.
C4_InitFailureDeferred ==
  (boot # "import") =>
     /\ log # <<>> => boot = "serving"
     /\ ~tableExists => resp.status \in {0, 422, 500}

\* C5: analyze_sentiment returns exactly one label: positive iff the
\* lower-cased text contains a positive stem (also when a negative stem is
\* there too), negative iff it contains no positive stem and a negative one,
\* neutral iff it contains neither; the label of a text is the label of its
\* upper-case and lower-case forms, whatever calls came before.
C5_Classification ==
  /\ clabel \in Labels
  /\ clabel = "positive" <=> HasStem(positive_words, ctext)
  /\ clabel = "negative" <=>
       (~HasStem(positive_words, ctext) /\ HasStem(negative_words, ctext))
  /\ clabel = "neutral" <=>
       (~HasStem(positive_words, ctext) /\ ~HasStem(negative_words, ctext))
  /\ clabel = analyze_sentiment(upper(ctext))
  /\ clabel = analyze_sentiment(lower(ctext))

C5_Witness ==
  /\ clabel = "positive"
  /\ HasStem(negative_words, ctext)
  /\ ctext # lower(ctext)

\* C6: once a POST has been answered with success, every later successful
\* unfiltered GET contains a record with the id, text, sentiment and
\* created_at of that POST's response.
C6_RoundTrip ==
  [][(resp'.req = "GET" /\ resp'.query = None /\ resp'.status = 200
        /\ get_reviews(None)) =>
        \A r \in posted : r \in Range(resp'.body)]_vars

C6_Witness ==
  /\ resp.req = "GET"
  /\ resp.query = None
  /\ resp.status = 200
  /\ Cardinality(posted) >= 2
  /\ \A r \in posted : r \in Range(resp.body)

\* C7: a successful GET with sentiment=L, L one of the three labels, returns
\* exactly the stored reviews whose sentiment is L, each once; a successful
\* GET without the parameter returns every stored review, each once.
C7_FilterExact ==
  [][\A q \in LabelQueries \cup {None} :
        (resp'.req = "GET" /\ resp'.query = q /\ resp'.status = 200
           /\ get_reviews(q)) =>
           /\ NoDuplicates(resp'.body)
           /\ Range(resp'.body) =
                IF q = None THEN Range(rows)
                ELSE {r \in Range(rows) : r.sentiment = q.value}]_vars

C7_Witness ==
  /\ resp.req = "GET"
  /\ resp.query \in LabelQueries
  /\ resp.status = 200
  /\ resp.body # <<>>
  /\ \E r \in Range(rows) : r.sentiment # resp.query.value
  /\ Range(resp.body) = {r \in Range(rows) : r.sentiment = resp.query.value}

\* C8: every stored review has one of the three labels, the label is the
\* classifier's result on the stored text, and no step changes or removes a
\* stored review.
C8_SentimentFixed ==
  [][rows' # rows =>
       /\ Len(rows') > Len(rows)
       /\ \A i \in 1..Len(rows') :
            /\ rows'[i].sentiment \in Labels
            /\ rows'[i].sentiment = analyze_sentiment(rows'[i].text)
            /\ i <= Len(rows) => rows'[i] = rows[i]]_vars

C8_Witness ==
  /\ Len(rows) >= 2
  /\ rows[1].sentiment # rows[2].sentiment
  /\ \E i \in 1..Len(rows) : rows[i].sentiment = "positive"
  /\ resp.req = "GET"
  /\ resp.status = 200

\* C9 as stated: a GET with ?sentiment= (present, empty) that meets no
\* storage failure is rejected with status 400 and returns no records.
C9_EmptyFilterRejected ==
  (resp.req = "GET" /\ resp.query = EmptyQuery /\ resp.raised = "")
    => (resp.status = 400 /\ resp.body = <<>>)

\* C9 amended: a GET with ?sentiment= (present, empty) is treated like a GET
\* without the parameter: it is never answered 400, it fails only with the
\* status 500 of a storage failure, and otherwise returns every stored review.
C9_EmptyFilterListsAll ==
  [][(resp'.req = "GET" /\ resp'.query = EmptyQuery /\ get_reviews(EmptyQuery)) =>
        /\ resp'.status \in {200, 500}
        /\ resp'.status = 500 => resp'.raised \in StorageErrors
        /\ resp'.status = 200 => resp'.body = rows]_vars

C9_Witness ==
  /\ resp.req = "GET"
  /\ resp.query = EmptyQuery
  /\ resp.status = 200
  /\ Len(resp.body) >= 2
  /\ resp.body = rows

\* C10: under any interleaving of POST requests, a request that succeeds
\* gets an id larger than the id of every review stored before it, its
\* response is its own stored record, and no two stored reviews share an id.
C10_IdsUniqueIncreasing ==
  [][\A p \in Workers :
        (resp'.req = "POST" /\ resp'.status = 200 /\ create_review_commit(p)) =>
           /\ Len(resp'.body) = 1
           /\ \A r \in Range(rows) : r.id < resp'.body[1].id
           /\ resp'.body[1].text = text[p]
           /\ resp'.body[1] \in Range(rows')
           /\ \A i, j \in 1..Len(rows') : rows'[i].id = rows'[j].id => i = j]_vars

\* two requests overlapped: the one stored second took its timestamp first.
C10_Witness ==
  /\ Len(rows) = 2
  /\ rows[2].created_at.utc < rows[1].created_at.utc
  /\ rows[1].id < rows[2].id
  /\ resp = Ok("POST", None, <<rows[2]>>)
====
